---------------------------- MODULE Spec2Model ----------------------------
(***************************************************************************)
(* A model of the External Term Format codec of src/src/codec.rs:          *)
(* Decoder (tag-directed recursive descent over a byte reader) and Encoder *)
(* (recursive descent over a Term writing to a byte sink).                 *)
(*                                                                         *)
(* Representation of the Rust values:                                      *)
(*   u8, u16, usize, i32   integers                                        *)
(*   u32                   <<hi, lo>>, two 16-bit halves (hi * 65536 + lo) *)
(*   f64                   <<w0, w1, w2, w3>>, the IEEE-754 bit pattern as *)
(*                         four big-endian 16-bit words                    *)
(*   String                the sequence of its UTF-8 bytes                 *)
(*   BigInt                [sign, mag]: sign and little-endian magnitude   *)
(*                         bytes without trailing zero bytes               *)
(*   Term                  a record whose field "type" names the variant   *)
(***************************************************************************)
EXTENDS Integers, Sequences, FiniteSets, TLC

\* ------------------------------------------------------------------ tags
VERSION == 131

DISTRIBUTION_HEADER == 68
NEW_FLOAT_EXT == 70
BIT_BINARY_EXT == 77
COMPRESSED_TERM == 80
ATOM_CACHE_REF == 82
SMALL_INTEGER_EXT == 97
INTEGER_EXT == 98
FLOAT_EXT == 99
ATOM_EXT == 100
REFERENCE_EXT == 101
PORT_EXT == 102
PID_EXT == 103
SMALL_TUPLE_EXT == 104
LARGE_TUPLE_EXT == 105
NIL_EXT == 106
STRING_EXT == 107
LIST_EXT == 108
BINARY_EXT == 109
SMALL_BIG_EXT == 110
LARGE_BIG_EXT == 111
NEW_FUN_EXT == 112
EXPORT_EXT == 113
NEW_REFERENCE_EXT == 114
SMALL_ATOM_EXT == 115
MAP_EXT == 116
FUN_EXT == 117
ATOM_UTF8_EXT == 118
SMALL_ATOM_UTF8_EXT == 119

\* ------------------------------------------------------ the Term variants
Atom(name) == [type |-> "Atom", name |-> name]
FixInteger(value) == [type |-> "FixInteger", value |-> value]
BigInteger(sign, mag) == [type |-> "BigInteger", sign |-> sign, mag |-> mag]
Float(words) == [type |-> "Float", fvalue |-> words]
Pid(node, id, serial, creation) ==
    [type |-> "Pid", node |-> node, id |-> id, serial |-> serial, creation |-> creation]
Port(node, id, creation) ==
    [type |-> "Port", node |-> node, port_id |-> id, creation |-> creation]
Reference(node, id, creation) ==
    [type |-> "Reference", node |-> node, ref_id |-> id, creation |-> creation]
ExternalFun(module, function, arity) ==
    [type |-> "ExternalFun", module |-> module, function |-> function, arity |-> arity]
InternalFunOld(module, pid, free_vars, index, uniq) ==
    [type |-> "InternalFun", shape |-> "Old", module |-> module, pid |-> pid,
     free_vars |-> free_vars, index |-> index, uniq |-> uniq]
InternalFunNew(module, arity, pid, free_vars, index, uniq, old_index, old_uniq) ==
    [type |-> "InternalFun", shape |-> "New", module |-> module, arity |-> arity,
     pid |-> pid, free_vars |-> free_vars, index |-> index, uniq |-> uniq,
     old_index |-> old_index, old_uniq |-> old_uniq]
Binary(bytes) == [type |-> "Binary", bytes |-> bytes]
BitBinary(bytes, tail_bits_size) ==
    [type |-> "BitBinary", bytes |-> bytes, tail_bits_size |-> tail_bits_size]
List(elements) == [type |-> "List", elements |-> elements]
ImproperList(elements, last) ==
    [type |-> "ImproperList", elements |-> elements, last |-> last]
Tuple(elements) == [type |-> "Tuple", elements |-> elements]
Map(entries) == [type |-> "Map", entries |-> entries]

\* List::nil and List::is_nil
Nil == List(<<>>)
is_nil(t) == t.type = "List" /\ t.elements = <<>>

\* ------------------------------------------------------------ the errors
IoError(kind) == [e |-> "Io", kind |-> kind]
UnsupportedVersion(version) == [e |-> "UnsupportedVersion", version |-> version]
UnknownTag(tag) == [e |-> "UnknownTag", tag |-> tag]
UnexpectedType(value, expected) ==
    [e |-> "UnexpectedType", term |-> value, expected |-> expected]
OutOfRange(value, lo, hi) == [e |-> "OutOfRange", value |-> value, range |-> <<lo, hi>>]
NonFiniteFloat == [e |-> "NonFiniteFloat"]
TooLongAtomName(atom) == [e |-> "TooLongAtomName", term |-> atom]
TooLargeInteger(x) == [e |-> "TooLargeInteger", term |-> x]
TooLargeReferenceId(x) == [e |-> "TooLargeReferenceId", term |-> x]

\* ------------------------------------------------------ integer helpers
Pow2(n) == CASE n = 0 -> 1 [] n = 1 -> 2 [] n = 2 -> 4 [] n = 3 -> 8 [] n = 4 -> 16
             [] n = 5 -> 32 [] n = 6 -> 64 [] n = 7 -> 128 [] n = 8 -> 256

\* u32 <-> usize; a u32 of 2^31 or more is kept as the largest integer TLC
\* holds: it only ever bounds a loop or a read_exact over a reader
\* that is shorter than that, so the outcome is the one of the exact value.
as_usize(u) == IF u[1] < 32768 THEN u[1] * 65536 + u[2] ELSE 2147483647
as_u32(n) == <<(n \div 65536) % 65536, n % 65536>>
u32_add(n, u) ==
    LET lo == u[2] + n
    IN  <<(u[1] + (lo \div 65536)) % 65536, lo % 65536>>

u16_be(n) == <<(n \div 256) % 256, n % 256>>
u32_be(u) == u16_be(u[1]) \o u16_be(u[2])
i32_be(v) == u16_be((v \div 65536) % 65536) \o u16_be(v % 65536)
f64_be(w) == u16_be(w[1]) \o u16_be(w[2]) \o u16_be(w[3]) \o u16_be(w[4])

u16_from(b) == b[1] * 256 + b[2]
u32_from(b) == <<b[1] * 256 + b[2], b[3] * 256 + b[4]>>
i32_from(b) ==
    LET hi == b[1] * 256 + b[2]
        lo == b[3] * 256 + b[4]
    IN  (IF hi >= 32768 THEN hi - 65536 ELSE hi) * 65536 + lo
f64_from(b) == <<b[1] * 256 + b[2], b[3] * 256 + b[4],
                 b[5] * 256 + b[6], b[7] * 256 + b[8]>>

\* the shift of a u8 by (8 - tail_bits_size), computed in u8: with overflow
\* checks (a debug build) the subtraction panics for tail_bits_size > 8 and
\* the shift panics for an amount of 8; without them (a release build) the
\* subtraction wraps modulo 256 and the shift amount is masked to 3 bits.
shift_panics(tail_bits_size) == tail_bits_size > 8 \/ tail_bits_size = 0
shift_amount(tail_bits_size) == ((8 - tail_bits_size) % 256) % 8
shl_u8(b, tail_bits_size) == (b * Pow2(shift_amount(tail_bits_size))) % 256
\* shr_u8 shifting by tail_bits_size itself
shr_u8_by_tail_bits(b, tail_bits_size) == b \div Pow2(tail_bits_size % 8)
shr_u8(b, tail_bits_size) == b \div Pow2(shift_amount(tail_bits_size))

\* str::from_utf8: whether the bytes are well-formed UTF-8
RECURSIVE Utf8Valid(_)
Utf8Valid(b) ==
    LET n == Len(b)
        cont(i) == i <= n /\ b[i] >= 128 /\ b[i] <= 191
        rest(k) == Utf8Valid(SubSeq(b, k + 1, n))
    IN  IF n = 0 THEN TRUE
        ELSE IF b[1] < 128 THEN rest(1)
        ELSE IF b[1] >= 194 /\ b[1] <= 223 THEN cont(2) /\ rest(2)
        ELSE IF b[1] = 224 THEN n >= 2 /\ b[2] >= 160 /\ b[2] <= 191 /\ cont(3) /\ rest(3)
        ELSE IF b[1] = 237 THEN n >= 2 /\ b[2] >= 128 /\ b[2] <= 159 /\ cont(3) /\ rest(3)
        ELSE IF b[1] >= 225 /\ b[1] <= 239 THEN cont(2) /\ cont(3) /\ rest(3)
        ELSE IF b[1] = 240
             THEN n >= 2 /\ b[2] >= 144 /\ b[2] <= 191 /\ cont(3) /\ cont(4) /\ rest(4)
        ELSE IF b[1] >= 241 /\ b[1] <= 243 THEN cont(2) /\ cont(3) /\ cont(4) /\ rest(4)
        ELSE IF b[1] = 244
             THEN n >= 2 /\ b[2] >= 128 /\ b[2] <= 143 /\ cont(3) /\ cont(4) /\ rest(4)
        ELSE FALSE

\* BigUint normalisation: the magnitude without its trailing (most
\* significant) zero bytes
RECURSIVE StripZeros(_)
StripZeros(b) ==
    IF Len(b) > 0 /\ b[Len(b)] = 0 THEN StripZeros(SubSeq(b, 1, Len(b) - 1)) ELSE b

\* BigInt::from_bytes_le(sign, bytes) and BigInt::to_bytes_le
from_bytes_le(sign, bytes) ==
    LET mag == StripZeros(bytes)
    IN  BigInteger(IF mag = <<>> THEN "NoSign" ELSE sign, mag)
to_bytes_le(x) == <<x.sign, IF x.mag = <<>> THEN <<0>> ELSE x.mag>>


\* ------------------------------------------------------------------ state
VARIABLES
    overflow_checks,  \* the build: TRUE with overflow checks (debug), FALSE without
    term,             \* the Term handed to Encoder::encode
    pc,               \* "ready", "encoded", "initial", "body", "done", "reencoded"
    writer,           \* the Encoder's sink
    enc_result,       \* what Encoder::encode returned
    source,           \* what the Decoder's reader was made from
    reader,           \* the bytes behind the Decoder's reader
    rstate,           \* the reader's state (bytes consumed, tags dispatched)
    dec_result,       \* what Decoder::decode returned
    writer2,          \* the sink of the second Encoder (re-encoding the decoded Term)
    enc_result2       \* what the second Encoder::encode returned

vars == <<overflow_checks, term, pc, writer, enc_result, source, reader, rstate,
          dec_result, writer2, enc_result2>>

\* ---------------------------------------------------------------- Decoder
\* The Decoder's reader is the byte sequence r with the state st:
\*   st.pos   the number of bytes consumed so far
\*   st.tags  the tag bytes decode_term_with_tag has dispatched on, in order
\*            (a history of the dispatches, not a field of the program)
\* A step's outcome is a record: kind "Ok" with the value in val, kind "Err"
\* with the DecodeError in val, or kind "Panic" (the call unwinds).
DOk(v, st) == [kind |-> "Ok", val |-> v, st |-> st]
DErr(e, st) == [kind |-> "Err", val |-> e, st |-> st]
DPanic(msg, st) == [kind |-> "Panic", val |-> [e |-> "Panic", msg |-> msg], st |-> st]

\* r#try!(x) followed by the rest of the function, and Result::and_then
AndThen(res, F(_, _)) == IF res.kind = "Ok" THEN F(res.val, res.st) ELSE res

\* io::Read::read_exact: n bytes, or UnexpectedEof once the reader is drained
read_exact(r, st, n) ==
    IF n <= Len(r) - st.pos
    THEN DOk(SubSeq(r, st.pos + 1, st.pos + n), [st EXCEPT !.pos = @ + n])
    ELSE DErr(IoError("UnexpectedEof"), [st EXCEPT !.pos = Len(r)])
read_u8(r, st) == AndThen(read_exact(r, st, 1), LAMBDA b, s : DOk(b[1], s))
read_u16(r, st) == AndThen(read_exact(r, st, 2), LAMBDA b, s : DOk(u16_from(b), s))
read_u32(r, st) == AndThen(read_exact(r, st, 4), LAMBDA b, s : DOk(u32_from(b), s))
read_i32(r, st) == AndThen(read_exact(r, st, 4), LAMBDA b, s : DOk(i32_from(b), s))
read_f64(r, st) == AndThen(read_exact(r, st, 8), LAMBDA b, s : DOk(f64_from(b), s))

\* aux
term_into_atom(t, st) ==
    IF t.type = "Atom" THEN DOk(t, st) ELSE DErr(UnexpectedType(t, "Atom"), st)
term_into_pid(t, st) ==
    IF t.type = "Pid" THEN DOk(t, st) ELSE DErr(UnexpectedType(t, "Pid"), st)
term_into_fix_integer(t, st) ==
    IF t.type = "FixInteger" THEN DOk(t, st) ELSE DErr(UnexpectedType(t, "FixInteger"), st)
\* term_into_ranged_integer with the upper bound left out of the range
term_into_ranged_integer_exclusive(t, st, lo, hi) ==
    AndThen(term_into_fix_integer(t, st), LAMBDA i, s :
        IF lo <= i.value /\ i.value < hi
        THEN DOk(i.value, s)
        ELSE DErr(OutOfRange(i.value, lo, hi), s))

term_into_ranged_integer(t, st, lo, hi) ==
    AndThen(term_into_fix_integer(t, st), LAMBDA i, s :
        IF lo <= i.value /\ i.value <= hi
        THEN DOk(i.value, s)
        ELSE DErr(OutOfRange(i.value, lo, hi), s))
latin1_bytes_to_string(buf, st) ==
    IF Utf8Valid(buf) THEN DOk(buf, st) ELSE DErr(IoError("Other"), st)
str_from_utf8(buf, st) ==
    IF Utf8Valid(buf) THEN DOk(buf, st) ELSE DErr(IoError("InvalidData"), st)
byte_to_sign(b, st) ==
    CASE b = 0 -> DOk("Plus", st)
      [] b = 1 -> DOk("Minus", st)
      [] OTHER -> DErr(IoError("InvalidData"), st)

\* Float::try_from: a non-finite value (all exponent bits set) is refused
is_finite(w) == (w[1] \div 16) % 2048 # 2047
Float_try_from(w, st) == IF is_finite(w) THEN DOk(Float(w), st) ELSE DErr(NonFiniteFloat, st)

\* str::trim_end_matches(0 as char)
RECURSIVE trim_end_nul(_)
trim_end_nul(b) ==
    IF Len(b) > 0 /\ b[Len(b)] = 0 THEN trim_end_nul(SubSeq(b, 1, Len(b) - 1)) ELSE b

\* str::parse::<f32> widened to f64, for the texts made of one to four
\* decimal digits (every other text is taken as unparseable): the value n
\* as an f64 bit pattern.
IsDigits(b) == Len(b) >= 1 /\ Len(b) <= 4 /\ \A i \in 1..Len(b) : b[i] >= 48 /\ b[i] <= 57
RECURSIVE DigitsValue(_)
DigitsValue(b) ==
    IF b = <<>> THEN 0 ELSE DigitsValue(SubSeq(b, 1, Len(b) - 1)) * 10 + (b[Len(b)] - 48)
RECURSIVE Log2Floor(_)
Log2Floor(n) == IF n <= 1 THEN 0 ELSE 1 + Log2Floor(n \div 2)
RECURSIVE Pow2N(_)
Pow2N(k) == IF k = 0 THEN 1 ELSE 2 * Pow2N(k - 1)
f64_of_nat(n) ==
    IF n = 0 THEN <<0, 0, 0, 0>>
    ELSE LET e == Log2Floor(n)
             m20 == (n - Pow2N(e)) * Pow2N(20 - e)
         IN  <<(1023 + e) * 16 + (m20 \div 65536), m20 % 65536, 0, 0>>
parse_f32(text, st) ==
    IF IsDigits(text) THEN DOk(f64_of_nat(DigitsValue(text)), st)
    ELSE DErr(IoError("InvalidData"), st)

\* zlib::Decoder over the rest of the reader: a zlib stream holding one
\* stored (uncompressed) deflate block: CMF FLG, 1, LEN, NLEN (little
\* endian), the data, and its Adler-32 (big endian).
\* Adler-32 of b as <<s2, s1>>: s1 is 1 plus the sum of the bytes, s2 the sum
\* of the running values of s1, both modulo 65521. The sums are taken by
\* halves of the index range.
RECURSIVE WeightedSum(_, _, _, _)
WeightedSum(b, weight(_), lo, hi) ==
    IF lo > hi THEN 0
    ELSE IF lo = hi THEN weight(lo) * b[lo]
    ELSE LET mid == (lo + hi) \div 2
         IN  WeightedSum(b, weight, lo, mid) + WeightedSum(b, weight, mid + 1, hi)
adler32(b) ==
    <<(Len(b) + WeightedSum(b, LAMBDA i : Len(b) - i + 1, 1, Len(b))) % 65521,
      (1 + WeightedSum(b, LAMBDA i : 1, 1, Len(b))) % 65521>>
zlib_stored(data) ==
    <<120, 1, 1, Len(data) % 256, Len(data) \div 256,
      255 - (Len(data) % 256), 255 - (Len(data) \div 256)>>
    \o data \o u32_be(adler32(data))
zlib_header_ok(z) ==
    /\ Len(z) >= 2
    /\ z[1] % 16 = 8
    /\ z[1] \div 16 <= 7
    /\ (z[1] * 256 + z[2]) % 31 = 0
    /\ (z[2] \div 32) % 2 = 0
zlib_inflate(z) ==
    IF /\ zlib_header_ok(z)
       /\ Len(z) >= 7
       /\ z[3] = 1
       /\ z[6] = 255 - z[4] /\ z[7] = 255 - z[5]
       /\ Len(z) >= 7 + (z[4] + 256 * z[5]) + 4
       /\ LET data == SubSeq(z, 8, 7 + z[4] + 256 * z[5])
          IN  SubSeq(z, 8 + Len(data), 11 + Len(data)) = u32_be(adler32(data))
    THEN [ok |-> TRUE, data |-> SubSeq(z, 8, 7 + z[4] + 256 * z[5])]
    ELSE [ok |-> FALSE, data |-> <<>>]

RECURSIVE decode_term(_, _), decode_term_with_tag(_, _, _), decode_elements(_, _, _),
          decode_entries(_, _, _)

\* decode_elements ending the loop when the reader is drained
RECURSIVE decode_elements_until_eof(_, _, _)
decode_elements_until_eof(r, st, count) ==
    IF count = 0 \/ st.pos >= Len(r) THEN DOk(<<>>, st)
    ELSE AndThen(decode_term(r, st), LAMBDA e, s1 :
         AndThen(decode_elements_until_eof(r, s1, count - 1), LAMBDA es, s2 :
             DOk(<<e>> \o es, s2)))

\* for _ in 0..count { elements.push(r#try!(self.decode_term())) }
decode_elements(r, st, count) ==
    IF count = 0 THEN DOk(<<>>, st)
    ELSE AndThen(decode_term(r, st), LAMBDA e, s1 :
         AndThen(decode_elements(r, s1, count - 1), LAMBDA es, s2 :
             DOk(<<e>> \o es, s2)))

\* for _ in 0..count { k = decode_term; v = decode_term; entries.push((k, v)) }
decode_entries(r, st, count) ==
    IF count = 0 THEN DOk(<<>>, st)
    ELSE AndThen(decode_term(r, st), LAMBDA k, s1 :
         AndThen(decode_term(r, s1), LAMBDA v, s2 :
         AndThen(decode_entries(r, s2, count - 1), LAMBDA es, s3 :
             DOk(<<<<k, v>>>> \o es, s3))))

\* for _ in 0..size { elements.push(FixInteger::from(read_u8 as i32)) }
RECURSIVE ToFixIntegers(_)
ToFixIntegers(b) ==
    IF b = <<>> THEN <<>> ELSE <<FixInteger(b[1])>> \o ToFixIntegers(Tail(b))

\* for _ in 0..id_count { id.push(read_u32) }
RECURSIVE read_u32s(_, _, _)
read_u32s(r, st, count) ==
    IF count = 0 THEN DOk(<<>>, st)
    ELSE AndThen(read_u32(r, st), LAMBDA n, s1 :
         AndThen(read_u32s(r, s1, count - 1), LAMBDA ns, s2 :
             DOk(<<n>> \o ns, s2)))

decode_nil_ext(r, st) == DOk(Nil, st)

\* decode_string_ext reading one more byte, as a terminator, after the bytes
decode_string_ext_with_terminator(r, st) ==
    AndThen(read_u16(r, st), LAMBDA size, s1 :
    AndThen(read_exact(r, s1, size), LAMBDA b, s2 :
    AndThen(read_u8(r, s2), LAMBDA nil_, s3 :
        DOk(List(ToFixIntegers(b)), s3))))

decode_string_ext(r, st) ==
    AndThen(read_u16(r, st), LAMBDA size, s1 :
    AndThen(read_exact(r, s1, size), LAMBDA b, s2 :
        DOk(List(ToFixIntegers(b)), s2)))

\* decode_list_ext taking every List tail, empty or not, for the terminator
decode_list_ext_any_list_tail(r, st) ==
    AndThen(read_u32(r, st), LAMBDA count, s1 :
    AndThen(decode_elements(r, s1, as_usize(count)), LAMBDA elements, s2 :
    AndThen(decode_term(r, s2), LAMBDA last, s3 :
        IF last.type = "List"
        THEN DOk(List(elements), s3)
        ELSE DOk(ImproperList(elements, last), s3))))

\* decode_list_ext giving a proper List whatever the tail is
decode_list_ext_always_proper(r, st) ==
    AndThen(read_u32(r, st), LAMBDA count, s1 :
    AndThen(decode_elements(r, s1, as_usize(count)), LAMBDA elements, s2 :
    AndThen(decode_term(r, s2), LAMBDA last, s3 :
        DOk(List(elements), s3))))

decode_list_ext(r, st) ==
    AndThen(read_u32(r, st), LAMBDA count, s1 :
    AndThen(decode_elements(r, s1, as_usize(count)), LAMBDA elements, s2 :
    AndThen(decode_term(r, s2), LAMBDA last, s3 :
        IF is_nil(last)
        THEN DOk(List(elements), s3)
        ELSE DOk(ImproperList(elements, last), s3))))

decode_small_tuple_ext(r, st) ==
    AndThen(read_u8(r, st), LAMBDA count, s1 :
    AndThen(decode_elements(r, s1, count), LAMBDA elements, s2 :
        DOk(Tuple(elements), s2)))

decode_large_tuple_ext(r, st) ==
    AndThen(read_u32(r, st), LAMBDA count, s1 :
    AndThen(decode_elements(r, s1, as_usize(count)), LAMBDA elements, s2 :
        DOk(Tuple(elements), s2)))

decode_map_ext(r, st) ==
    AndThen(read_u32(r, st), LAMBDA count, s1 :
    AndThen(decode_entries(r, s1, as_usize(count)), LAMBDA entries, s2 :
        DOk(Map(entries), s2)))

decode_binary_ext(r, st) ==
    AndThen(read_u32(r, st), LAMBDA size, s1 :
    AndThen(read_exact(r, s1, as_usize(size)), LAMBDA buf, s2 :
        DOk(Binary(buf), s2)))

decode_bit_binary_ext(r, st) ==
    AndThen(read_u32(r, st), LAMBDA size, s1 :
    AndThen(read_u8(r, s1), LAMBDA tail_bits_size, s2 :
    AndThen(read_exact(r, s2, as_usize(size)), LAMBDA buf, s3 :
        IF buf # <<>>
        THEN IF overflow_checks /\ shift_panics(tail_bits_size)
             THEN DPanic("arithmetic overflow", s3)
             ELSE DOk(BitBinary([buf EXCEPT ![Len(buf)] = shr_u8(@, tail_bits_size)],
                                tail_bits_size), s3)
        ELSE DOk(BitBinary(buf, tail_bits_size), s3))))

decode_pid_ext(r, st) ==
    AndThen(AndThen(decode_term(r, st), term_into_atom), LAMBDA node, s1 :
    AndThen(read_u32(r, s1), LAMBDA id, s2 :
    AndThen(read_u32(r, s2), LAMBDA serial, s3 :
    AndThen(read_u8(r, s3), LAMBDA creation, s4 :
        DOk(Pid(node, id, serial, creation), s4)))))

decode_port_ext(r, st) ==
    AndThen(AndThen(decode_term(r, st), LAMBDA t, s :
                IF t.type = "Atom" THEN DOk(t, s) ELSE DErr(UnexpectedType(t, "Atom"), s)),
            LAMBDA node, s1 :
    AndThen(read_u32(r, s1), LAMBDA id, s2 :
    AndThen(read_u8(r, s2), LAMBDA creation, s3 :
        DOk(Port(node, id, creation), s3))))

decode_reference_ext(r, st) ==
    AndThen(AndThen(decode_term(r, st), term_into_atom), LAMBDA node, s1 :
    AndThen(read_u32(r, s1), LAMBDA id, s2 :
    AndThen(read_u8(r, s2), LAMBDA creation, s3 :
        DOk(Reference(node, <<id>>, creation), s3))))

decode_new_reference_ext(r, st) ==
    AndThen(read_u16(r, st), LAMBDA id_count, s1 :
    AndThen(AndThen(decode_term(r, s1), term_into_atom), LAMBDA node, s2 :
    AndThen(read_u8(r, s2), LAMBDA creation, s3 :
    AndThen(read_u32s(r, s3, id_count), LAMBDA id, s4 :
        DOk(Reference(node, id, creation), s4)))))

decode_export_ext(r, st) ==
    AndThen(AndThen(decode_term(r, st), term_into_atom), LAMBDA module, s1 :
    AndThen(AndThen(decode_term(r, s1), term_into_atom), LAMBDA function, s2 :
    AndThen(AndThen(decode_term(r, s2),
                    LAMBDA t, s : term_into_ranged_integer(t, s, 0, 255)),
            LAMBDA arity, s3 :
        DOk(ExternalFun(module, function, arity), s3))))

decode_fun_ext(r, st) ==
    AndThen(read_u32(r, st), LAMBDA num_free, s1 :
    AndThen(AndThen(decode_term(r, s1), term_into_pid), LAMBDA pid, s2 :
    AndThen(AndThen(decode_term(r, s2), term_into_atom), LAMBDA module, s3 :
    AndThen(AndThen(decode_term(r, s3), term_into_fix_integer), LAMBDA index, s4 :
    AndThen(AndThen(decode_term(r, s4), term_into_fix_integer), LAMBDA uniq, s5 :
    AndThen(decode_elements(r, s5, as_usize(num_free)), LAMBDA vars_, s6 :
        DOk(InternalFunOld(module, pid, vars_, index.value, uniq.value), s6)))))))

decode_new_fun_ext(r, st) ==
    AndThen(read_u32(r, st), LAMBDA size_, s1 :
    AndThen(read_u8(r, s1), LAMBDA arity, s2 :
    AndThen(read_exact(r, s2, 16), LAMBDA uniq, s3 :
    AndThen(read_u32(r, s3), LAMBDA index, s4 :
    AndThen(read_u32(r, s4), LAMBDA num_free, s5 :
    AndThen(AndThen(decode_term(r, s5), term_into_atom), LAMBDA module, s6 :
    AndThen(AndThen(decode_term(r, s6), term_into_fix_integer), LAMBDA old_index, s7 :
    AndThen(AndThen(decode_term(r, s7), term_into_fix_integer), LAMBDA old_uniq, s8 :
    AndThen(AndThen(decode_term(r, s8), term_into_pid), LAMBDA pid, s9 :
    AndThen(decode_elements(r, s9, as_usize(num_free)), LAMBDA vars_, s10 :
        DOk(InternalFunNew(module, arity, pid, vars_, index, uniq,
                           old_index.value, old_uniq.value), s10)))))))))))

decode_new_float_ext(r, st) == AndThen(read_f64(r, st), Float_try_from)

decode_float_ext(r, st) ==
    AndThen(read_exact(r, st, 31), LAMBDA buf, s1 :
    AndThen(str_from_utf8(buf, s1), LAMBDA text, s2 :
    AndThen(parse_f32(trim_end_nul(text), s2), Float_try_from)))

decode_small_integer_ext(r, st) ==
    AndThen(read_u8(r, st), LAMBDA value, s1 : DOk(FixInteger(value), s1))

decode_integer_ext(r, st) ==
    AndThen(read_i32(r, st), LAMBDA value, s1 : DOk(FixInteger(value), s1))

decode_small_big_ext(r, st) ==
    AndThen(read_u8(r, st), LAMBDA count, s1 :
    AndThen(read_u8(r, s1), LAMBDA sign, s2 :
    AndThen(read_exact(r, s2, count), LAMBDA buf, s3 :
    AndThen(byte_to_sign(sign, s3), LAMBDA sg, s4 :
        DOk(from_bytes_le(sg, buf), s4)))))

decode_large_big_ext(r, st) ==
    AndThen(read_u32(r, st), LAMBDA count, s1 :
    AndThen(read_u8(r, s1), LAMBDA sign, s2 :
    AndThen(read_exact(r, s2, as_usize(count)), LAMBDA buf, s3 :
    AndThen(byte_to_sign(sign, s3), LAMBDA sg, s4 :
        DOk(from_bytes_le(sg, buf), s4)))))

decode_atom_ext(r, st) ==
    AndThen(read_u16(r, st), LAMBDA len, s1 :
    AndThen(read_exact(r, s1, len), LAMBDA buf, s2 :
    AndThen(latin1_bytes_to_string(buf, s2), LAMBDA name, s3 :
        DOk(Atom(name), s3))))

decode_small_atom_ext(r, st) ==
    AndThen(read_u8(r, st), LAMBDA len, s1 :
    AndThen(read_exact(r, s1, len), LAMBDA buf, s2 :
    AndThen(latin1_bytes_to_string(buf, s2), LAMBDA name, s3 :
        DOk(Atom(name), s3))))

decode_atom_utf8_ext(r, st) ==
    AndThen(read_u16(r, st), LAMBDA len, s1 :
    AndThen(read_exact(r, s1, len), LAMBDA buf, s2 :
    AndThen(str_from_utf8(buf, s2), LAMBDA name, s3 :
        DOk(Atom(name), s3))))

decode_small_atom_utf8_ext(r, st) ==
    AndThen(read_u8(r, st), LAMBDA len, s1 :
    AndThen(read_exact(r, s1, len), LAMBDA buf, s2 :
    AndThen(str_from_utf8(buf, s2), LAMBDA name, s3 :
        DOk(Atom(name), s3))))

\* unknown_tag treating the distribution-header tag as the envelope does
unknown_tag_or_envelope(st, tag) ==
    IF tag = DISTRIBUTION_HEADER THEN DPanic("not implemented", st)
    ELSE DErr(UnknownTag(tag), st)

\* the arm _ => Err(DecodeError::UnknownTag { tag: tag })
unknown_tag(st, tag) == DErr(UnknownTag(tag), st)

dispatch(r, st, tag) ==
    CASE tag = NEW_FLOAT_EXT -> decode_new_float_ext(r, st)
      [] tag = BIT_BINARY_EXT -> decode_bit_binary_ext(r, st)
      [] tag = ATOM_CACHE_REF -> DPanic("not implemented", st)
      [] tag = SMALL_INTEGER_EXT -> decode_small_integer_ext(r, st)
      [] tag = INTEGER_EXT -> decode_integer_ext(r, st)
      [] tag = FLOAT_EXT -> decode_float_ext(r, st)
      [] tag = ATOM_EXT -> decode_atom_ext(r, st)
      [] tag = REFERENCE_EXT -> decode_reference_ext(r, st)
      [] tag = PORT_EXT -> decode_port_ext(r, st)
      [] tag = PID_EXT -> decode_pid_ext(r, st)
      [] tag = SMALL_TUPLE_EXT -> decode_small_tuple_ext(r, st)
      [] tag = LARGE_TUPLE_EXT -> decode_large_tuple_ext(r, st)
      [] tag = NIL_EXT -> decode_nil_ext(r, st)
      [] tag = STRING_EXT -> decode_string_ext(r, st)
      [] tag = LIST_EXT -> decode_list_ext(r, st)
      [] tag = BINARY_EXT -> decode_binary_ext(r, st)
      [] tag = SMALL_BIG_EXT -> decode_small_big_ext(r, st)
      [] tag = LARGE_BIG_EXT -> decode_large_big_ext(r, st)
      [] tag = NEW_FUN_EXT -> decode_new_fun_ext(r, st)
      [] tag = EXPORT_EXT -> decode_export_ext(r, st)
      [] tag = NEW_REFERENCE_EXT -> decode_new_reference_ext(r, st)
      [] tag = SMALL_ATOM_EXT -> decode_small_atom_ext(r, st)
      [] tag = MAP_EXT -> decode_map_ext(r, st)
      [] tag = FUN_EXT -> decode_fun_ext(r, st)
      [] tag = ATOM_UTF8_EXT -> decode_atom_utf8_ext(r, st)
      [] tag = SMALL_ATOM_UTF8_EXT -> decode_small_atom_utf8_ext(r, st)
      [] OTHER -> unknown_tag(st, tag)

decode_term_with_tag(r, st, tag) ==
    dispatch(r, [st EXCEPT !.tags = Append(@, tag)], tag)

decode_term(r, st) ==
    AndThen(read_u8(r, st), LAMBDA tag, s1 : decode_term_with_tag(r, s1, tag))

\* decode_version checking the version only once the tag byte is read too
decode_version_after_tag(r, st) ==
    AndThen(read_u8(r, st), LAMBDA version, s1 :
    AndThen(read_u8(r, s1), LAMBDA tag, s2 :
        IF version # VERSION THEN DErr(UnsupportedVersion(version), s2)
        ELSE DOk(version, s1)))

\* Decoder::decode up to the version check
decode_version(r, st) ==
    AndThen(read_u8(r, st), LAMBDA version, s1 :
        IF version # VERSION THEN DErr(UnsupportedVersion(version), s1)
        ELSE DOk(version, s1))

\* decode_compressed_term whose inner Decoder expects a version byte
decode_compressed_term_versioned(r, st) ==
    AndThen(read_u32(r, st), LAMBDA uncompressed_size_, s1 :
        LET z == zlib_inflate(SubSeq(r, s1.pos + 1, Len(r)))
            outer == [s1 EXCEPT !.pos = Len(r)]
        IN  IF ~z.ok THEN DErr(IoError("InvalidData"), outer)
            ELSE LET inner == AndThen(decode_version(z.data, [pos |-> 0, tags |-> s1.tags]),
                                      LAMBDA v, s2 : decode_term(z.data, s2))
                 IN  [inner EXCEPT !.st = [outer EXCEPT !.tags = inner.st.tags]])

\* The inner Decoder reads the inflated stream; the outer reader is left
\* drained, and the dispatch history goes on in the inner Decoder.
decode_compressed_term(r, st) ==
    AndThen(read_u32(r, st), LAMBDA uncompressed_size_, s1 :
        LET z == zlib_inflate(SubSeq(r, s1.pos + 1, Len(r)))
            outer == [s1 EXCEPT !.pos = Len(r)]
        IN  IF ~z.ok THEN DErr(IoError("InvalidData"), outer)
            ELSE LET inner == decode_term(z.data, [pos |-> 0, tags |-> s1.tags])
                 IN  [inner EXCEPT !.st = [outer EXCEPT !.tags = inner.st.tags]])

\* Decoder::decode after the version check
decode_body(r, st) ==
    AndThen(read_u8(r, st), LAMBDA tag, s1 :
        CASE tag = COMPRESSED_TERM -> decode_compressed_term(r, s1)
          [] tag = DISTRIBUTION_HEADER -> DPanic("not implemented", s1)
          [] OTHER -> decode_term_with_tag(r, s1, tag))

NewReader == [pos |-> 0, tags |-> <<>>]
decode(r) == AndThen(decode_version(r, NewReader), LAMBDA v, s1 : decode_body(r, s1))

\* ---------------------------------------------------------------- Encoder
\* The Encoder's writer w:
\*   w.out       the bytes the sink has accepted, in order
\*   w.cap       the number of bytes the sink accepts before its write fails
\*               (-1: it never fails, as a Vec)
\*   w.versions  how many times the version byte was written (a history of
\*               the writes, not a field of the program)
\* A step's outcome: kind "Ok", kind "Err" with the EncodeError in val, or
\* kind "Panic".
NoError == [e |-> "None"]
EOk(w) == [kind |-> "Ok", val |-> NoError, w |-> w]
EErr(e, w) == [kind |-> "Err", val |-> e, w |-> w]
EPanic(msg, w) == [kind |-> "Panic", val |-> [e |-> "Panic", msg |-> msg], w |-> w]

Then(res, F(_)) == IF res.kind = "Ok" THEN F(res.w) ELSE res

NewWriter(cap) == [out |-> <<>>, cap |-> cap, versions |-> 0]

\* io::Write::write_all: the sink takes the bytes it has room for and the
\* call fails when it cannot take them all
write_all(w, bytes) ==
    IF w.cap < 0 \/ Len(w.out) + Len(bytes) <= w.cap
    THEN EOk([w EXCEPT !.out = @ \o bytes])
    ELSE EErr(IoError("WriteZero"),
              [w EXCEPT !.out = @ \o SubSeq(bytes, 1, w.cap - Len(w.out))])
write_u8(w, b) == write_all(w, <<b>>)
write_u16(w, n) == write_all(w, u16_be(n))
write_u32(w, u) == write_all(w, u32_be(u))
write_i32(w, v) == write_all(w, i32_be(v))
write_f64(w, x) == write_all(w, f64_be(x))

RECURSIVE write_u32s(_, _)
write_u32s(w, ns) ==
    IF ns = <<>> THEN EOk(w)
    ELSE Then(write_u32(w, ns[1]), LAMBDA w1 : write_u32s(w1, Tail(ns)))

sign_to_byte(sign) == IF sign = "Minus" THEN 1 ELSE 0

\* the closure to_byte of encode_list: Some(i as u8) or None
to_byte_is_some(e) == e.type = "FixInteger" /\ e.value < 256
to_byte(e) == e.value % 256
RECURSIVE ToBytes(_)
ToBytes(es) == IF es = <<>> THEN <<>> ELSE <<to_byte(es[1])>> \o ToBytes(Tail(es))

RECURSIVE encode_term(_, _), encode_elements(_, _), encode_entries(_, _)

encode_nil(w) == write_u8(w, NIL_EXT)

encode_atom(w, x) ==
    IF Len(x.name) > 65535 THEN EErr(TooLongAtomName(x), w)
    ELSE LET is_ascii == \A i \in 1..Len(x.name) : x.name[i] < 128
         IN  Then(write_u8(w, IF is_ascii THEN ATOM_EXT ELSE ATOM_UTF8_EXT), LAMBDA w1 :
             Then(write_u16(w1, Len(x.name)), LAMBDA w2 :
                 write_all(w2, x.name)))

\* encode_fix_integer without the lower bound of the small form
encode_fix_integer_no_lower_bound(w, x) ==
    IF x.value <= 255
    THEN Then(write_u8(w, SMALL_INTEGER_EXT), LAMBDA w1 : write_u8(w1, x.value % 256))
    ELSE Then(write_u8(w, INTEGER_EXT), LAMBDA w1 : write_i32(w1, x.value))

encode_fix_integer(w, x) ==
    IF 0 <= x.value /\ x.value <= 255
    THEN Then(write_u8(w, SMALL_INTEGER_EXT), LAMBDA w1 : write_u8(w1, x.value))
    ELSE Then(write_u8(w, INTEGER_EXT), LAMBDA w1 : write_i32(w1, x.value))

encode_big_integer(w, x) ==
    LET sign == to_bytes_le(x)[1]
        bytes == to_bytes_le(x)[2]
        tail(w2) == Then(write_u8(w2, sign_to_byte(sign)), LAMBDA w3 : write_all(w3, bytes))
    IN  IF Len(bytes) <= 255
        THEN Then(write_u8(w, SMALL_BIG_EXT), LAMBDA w1 :
             Then(write_u8(w1, Len(bytes)), tail))
        ELSE IF Len(bytes) \div 65536 <= 65535
        THEN Then(write_u8(w, LARGE_BIG_EXT), LAMBDA w1 :
             Then(write_u32(w1, as_u32(Len(bytes))), tail))
        ELSE EErr(TooLargeInteger(x), w)

encode_float(w, x) ==
    Then(write_u8(w, NEW_FLOAT_EXT), LAMBDA w1 : write_f64(w1, x.fvalue))

encode_pid(w, x) ==
    Then(write_u8(w, PID_EXT), LAMBDA w1 :
    Then(encode_atom(w1, x.node), LAMBDA w2 :
    Then(write_u32(w2, x.id), LAMBDA w3 :
    Then(write_u32(w3, x.serial), LAMBDA w4 :
        write_u8(w4, x.creation)))))

encode_port(w, x) ==
    Then(write_u8(w, PORT_EXT), LAMBDA w1 :
    Then(encode_atom(w1, x.node), LAMBDA w2 :
    Then(write_u32(w2, x.port_id), LAMBDA w3 :
        write_u8(w3, x.creation))))

encode_reference(w, x) ==
    Then(write_u8(w, NEW_REFERENCE_EXT), LAMBDA w1 :
        IF Len(x.ref_id) > 65535 THEN EErr(TooLargeReferenceId(x), w1)
        ELSE Then(write_u16(w1, Len(x.ref_id)), LAMBDA w2 :
             Then(encode_atom(w2, x.node), LAMBDA w3 :
             Then(write_u8(w3, x.creation), LAMBDA w4 :
                 write_u32s(w4, x.ref_id)))))

encode_external_fun(w, x) ==
    Then(write_u8(w, EXPORT_EXT), LAMBDA w1 :
    Then(encode_atom(w1, x.module), LAMBDA w2 :
    Then(encode_atom(w2, x.function), LAMBDA w3 :
        encode_fix_integer(w3, FixInteger(x.arity)))))

encode_binary(w, x) ==
    Then(write_u8(w, BINARY_EXT), LAMBDA w1 :
    Then(write_u32(w1, as_u32(Len(x.bytes))), LAMBDA w2 :
        write_all(w2, x.bytes)))

encode_bit_binary(w, x) ==
    Then(write_u8(w, BIT_BINARY_EXT), LAMBDA w1 :
    Then(write_u32(w1, as_u32(Len(x.bytes))), LAMBDA w2 :
    Then(write_u8(w2, x.tail_bits_size), LAMBDA w3 :
        IF x.bytes # <<>>
        THEN Then(write_all(w3, SubSeq(x.bytes, 1, Len(x.bytes) - 1)), LAMBDA w4 :
                 IF overflow_checks /\ shift_panics(x.tail_bits_size)
                 THEN EPanic("arithmetic overflow", w4)
                 ELSE write_u8(w4, shl_u8(x.bytes[Len(x.bytes)], x.tail_bits_size)))
        ELSE EOk(w3))))

encode_elements(w, es) ==
    IF es = <<>> THEN EOk(w)
    ELSE Then(encode_term(w, es[1]), LAMBDA w1 : encode_elements(w1, Tail(es)))

encode_entries(w, es) ==
    IF es = <<>> THEN EOk(w)
    ELSE Then(encode_term(w, es[1][1]), LAMBDA w1 :
         Then(encode_term(w1, es[1][2]), LAMBDA w2 :
             encode_entries(w2, Tail(es))))

encode_list(w, x) ==
    IF /\ x.elements # <<>>
       /\ Len(x.elements) <= 65535
       /\ \A i \in 1..Len(x.elements) : to_byte_is_some(x.elements[i])
    THEN Then(write_u8(w, STRING_EXT), LAMBDA w1 :
         Then(write_u16(w1, Len(x.elements)), LAMBDA w2 :
             write_all(w2, ToBytes(x.elements))))
    ELSE IF ~is_nil(x)
         THEN Then(write_u8(w, LIST_EXT), LAMBDA w1 :
              Then(write_u32(w1, as_u32(Len(x.elements))), LAMBDA w2 :
              Then(encode_elements(w2, x.elements), encode_nil)))
         ELSE encode_nil(w)

encode_improper_list(w, x) ==
    Then(write_u8(w, LIST_EXT), LAMBDA w1 :
    Then(write_u32(w1, as_u32(Len(x.elements))), LAMBDA w2 :
    Then(encode_elements(w2, x.elements), LAMBDA w3 :
        encode_term(w3, x.last))))

encode_tuple(w, x) ==
    Then(IF Len(x.elements) < 256
         THEN Then(write_u8(w, SMALL_TUPLE_EXT), LAMBDA w1 : write_u8(w1, Len(x.elements)))
         ELSE Then(write_u8(w, LARGE_TUPLE_EXT), LAMBDA w1 :
                  write_u32(w1, as_u32(Len(x.elements)))),
         LAMBDA w2 : encode_elements(w2, x.elements))

encode_map(w, x) ==
    Then(write_u8(w, MAP_EXT), LAMBDA w1 :
    Then(write_u32(w1, as_u32(Len(x.entries))), LAMBDA w2 :
        encode_entries(w2, x.entries)))

\* encode_new_fun_body written through tmp.encode: the version byte again
encode_new_fun_body_versioned(tmp, x) ==
    Then(write_u8(tmp, x.arity), LAMBDA t1 :
    Then(write_all(t1, x.uniq), LAMBDA t2 :
    Then(write_u32(t2, x.index), LAMBDA t3 :
    Then(write_u32(t3, as_u32(Len(x.free_vars))), LAMBDA t4 :
    Then(LET res == write_u8(t4, VERSION)
         IN  IF res.kind = "Ok" THEN EOk([res.w EXCEPT !.versions = @ + 1]) ELSE res,
         LAMBDA t4v :
    Then(encode_atom(t4v, x.module), LAMBDA t5 :
    Then(encode_fix_integer(t5, FixInteger(x.old_index)), LAMBDA t6 :
    Then(encode_fix_integer(t6, FixInteger(x.old_uniq)), LAMBDA t7 :
    Then(encode_pid(t7, x.pid), LAMBDA t8 :
        encode_elements(t8, x.free_vars))))))))))

\* the body of InternalFun::New, written by the Encoder tmp over the Vec buf
encode_new_fun_body(tmp, x) ==
    Then(write_u8(tmp, x.arity), LAMBDA t1 :
    Then(write_all(t1, x.uniq), LAMBDA t2 :
    Then(write_u32(t2, x.index), LAMBDA t3 :
    Then(write_u32(t3, as_u32(Len(x.free_vars))), LAMBDA t4 :
    Then(encode_atom(t4, x.module), LAMBDA t5 :
    Then(encode_fix_integer(t5, FixInteger(x.old_index)), LAMBDA t6 :
    Then(encode_fix_integer(t6, FixInteger(x.old_uniq)), LAMBDA t7 :
    Then(encode_pid(t7, x.pid), LAMBDA t8 :
        encode_elements(t8, x.free_vars)))))))))

encode_internal_fun(w, x) ==
    IF x.shape = "Old"
    THEN Then(write_u8(w, FUN_EXT), LAMBDA w1 :
         Then(write_u32(w1, as_u32(Len(x.free_vars))), LAMBDA w2 :
         Then(encode_pid(w2, x.pid), LAMBDA w3 :
         Then(encode_atom(w3, x.module), LAMBDA w4 :
         Then(encode_fix_integer(w4, FixInteger(x.index)), LAMBDA w5 :
         Then(encode_fix_integer(w5, FixInteger(x.uniq)), LAMBDA w6 :
             encode_elements(w6, x.free_vars)))))))
    ELSE Then(write_u8(w, NEW_FUN_EXT), LAMBDA w1 :
             LET body == encode_new_fun_body(NewWriter(-1), x)
                 buf == body.w.out
                 w1v == [w1 EXCEPT !.versions = @ + body.w.versions]
             IN  IF body.kind # "Ok" THEN [body EXCEPT !.w = w1v]
                 ELSE Then(write_u32(w1v, u32_add(4, as_u32(Len(buf)))), LAMBDA w2 :
                          write_all(w2, buf)))

encode_term(w, t) ==
    CASE t.type = "Atom" -> encode_atom(w, t)
      [] t.type = "FixInteger" -> encode_fix_integer(w, t)
      [] t.type = "BigInteger" -> encode_big_integer(w, t)
      [] t.type = "Float" -> encode_float(w, t)
      [] t.type = "Pid" -> encode_pid(w, t)
      [] t.type = "Port" -> encode_port(w, t)
      [] t.type = "Reference" -> encode_reference(w, t)
      [] t.type = "ExternalFun" -> encode_external_fun(w, t)
      [] t.type = "InternalFun" -> encode_internal_fun(w, t)
      [] t.type = "Binary" -> encode_binary(w, t)
      [] t.type = "BitBinary" -> encode_bit_binary(w, t)
      [] t.type = "List" -> encode_list(w, t)
      [] t.type = "ImproperList" -> encode_improper_list(w, t)
      [] t.type = "Tuple" -> encode_tuple(w, t)
      [] t.type = "Map" -> encode_map(w, t)

\* self.writer.write_u8(VERSION)
write_version(w) ==
    LET res == write_u8(w, VERSION)
    IN  IF res.kind = "Ok" THEN EOk([res.w EXCEPT !.versions = @ + 1]) ELSE res

\* Encoder::encode
encode(w, t) == Then(write_version(w), LAMBDA w1 : encode_term(w1, t))

\* ------------------------------------------------------------ the inputs
MaxElems == 2     \* elements of a List, ImproperList or Tuple
MaxCap == 3       \* bytes a failing sink accepts
MaxMutPos == 8    \* the last position of a reader's bytes that is altered

SeqsUpTo(S, n) == UNION {[1..k -> S] : k \in 0..n}

AtomNames == {<<>>, <<111, 107>>, <<195, 169>>}
Atoms == {Atom(n) : n \in AtomNames}
FixValues == {-2147483647 - 1, -300, -1, 0, 1, 42, 255, 256, 1000, 2147483647}
FixIntegers == {FixInteger(v) : v \in FixValues}
BigIntegers == {BigInteger("NoSign", <<>>), BigInteger("Plus", <<0, 0, 0, 0, 1>>),
                BigInteger("Minus", <<1>>)}
Floats == {Float(<<16368, 0, 0, 0>>), Float(<<32768, 0, 0, 0>>),
           Float(<<16393, 8699, 21572, 11544>>), Float(<<32760, 0, 0, 0>>)}
U32s == {<<0, 0>>, <<0, 1000>>, <<65535, 65535>>}
APid == Pid(Atom(<<111, 107>>), <<0, 1000>>, <<0, 0>>, 3)
Pids == {APid, Pid(Atom(<<>>), <<65535, 65535>>, <<32768, 0>>, 255)}
Ports == {Port(Atom(<<111, 107>>), u, 1) : u \in U32s}
References == {Reference(Atom(<<111, 107>>), id, 2) : id \in SeqsUpTo({<<0, 7>>, <<65535, 65535>>}, 2)}
ExternalFuns == {ExternalFun(Atom(<<111, 107>>), Atom(<<195, 169>>), a) : a \in {0, 2, 255}}
Binaries == {Binary(b) : b \in {<<>>, <<1, 2>>, <<255>>}}
BitBinaries == {BitBinary(<<>>, 8), BitBinary(<<>>, 0), BitBinary(<<>>, 9),
                BitBinary(<<5>>, 3), BitBinary(<<9, 1>>, 1), BitBinary(<<200>>, 8),
                BitBinary(<<255>>, 1), BitBinary(<<5>>, 0), BitBinary(<<3>>, 9)}
\* for every tail_bits_size of 1..8: no payload, a one-byte payload with all
\* the significant bits set, and a two-byte payload with only the highest one
ShiftBitBinaries ==
    UNION {{BitBinary(<<>>, n), BitBinary(<<2^n - 1>>, n), BitBinary(<<9, 2^(n - 1)>>, n)} :
             n \in 1..8}
Leaves == Atoms \cup FixIntegers \cup BigIntegers \cup Floats \cup Pids \cup Ports
          \cup References \cup ExternalFuns \cup Binaries \cup BitBinaries

AUniq == [i \in 1..16 |-> i]
Funs(E) ==
    {InternalFunOld(Atom(<<111, 107>>), APid, fv, 1, -1) : fv \in SeqsUpTo(E, 1)}
    \cup {InternalFunNew(Atom(<<111, 107>>), 2, APid, fv, <<0, 5>>, AUniq, 300, 7) :
            fv \in SeqsUpTo(E, 1)}
Containers(E, n) ==
    {List(es) : es \in SeqsUpTo(E, n)}
    \cup {ImproperList(es, last) : es \in SeqsUpTo(E, n), last \in E \cup {Nil}}
    \cup {Tuple(es) : es \in SeqsUpTo(E, n)}
    \cup {Map(es) : es \in SeqsUpTo(E \X E, 1)}
    \cup Funs(E)

Elems == {FixInteger(-1), FixInteger(1), FixInteger(1000), Atom(<<111, 107>>),
          BitBinary(<<5>>, 3)}
Nested == {Nil, List(<<FixInteger(1)>>), List(<<FixInteger(-1)>>),
           List(<<Atom(<<111, 107>>)>>), ImproperList(<<>>, Nil),
           ImproperList(<<>>, FixInteger(1)), ImproperList(<<FixInteger(1)>>, Nil),
           Tuple(<<>>), Map(<<>>), BitBinary(<<>>, 0), APid}
\* Terms that hold a Float whose value is not finite (the field is public)
NonFiniteHolders ==
    {Tuple(<<Float(<<32760, 0, 0, 0>>), FixInteger(1)>>),
     List(<<Float(<<32752, 0, 0, 0>>), Atom(<<111, 107>>)>>)}
Terms == Leaves \cup Containers(Elems, MaxElems) \cup Containers(Nested, 1)
         \cup ShiftBitBinaries \cup NonFiniteHolders

\* the bytes an altered reader gets at one position
MutBytes == {0, 9, 68, 80, 82, 106, 130, 255}
\* the advisory size fields of a compressed envelope
SizeFields == {<<0, 0>>, <<0, 7>>, <<65535, 65535>>}

\* the tails of a hand-made LIST stream: the bytes of the tail and the Term
\* they stand for
ListTails ==
    {[bytes |-> <<NIL_EXT>>, tail |-> Nil],
     [bytes |-> <<STRING_EXT, 0, 0>>, tail |-> Nil],
     [bytes |-> <<LIST_EXT, 0, 0, 0, 0, NIL_EXT>>, tail |-> Nil],
     [bytes |-> <<STRING_EXT, 0, 1, 7>>, tail |-> List(<<FixInteger(7)>>)],
     [bytes |-> <<LIST_EXT, 0, 0, 0, 1, SMALL_INTEGER_EXT, 7, NIL_EXT>>,
      tail |-> List(<<FixInteger(7)>>)],
     [bytes |-> <<ATOM_EXT, 0, 2, 111, 107>>, tail |-> Atom(<<111, 107>>)],
     [bytes |-> <<SMALL_INTEGER_EXT, 1>>, tail |-> FixInteger(1)],
     [bytes |-> <<SMALL_TUPLE_EXT, 0>>, tail |-> Tuple(<<>>)],
     [bytes |-> <<LIST_EXT, 0, 0, 0, 0, SMALL_INTEGER_EXT, 1>>,
      tail |-> ImproperList(<<>>, FixInteger(1))]}

\* the Terms put in the place of a nested field of a stream
FieldValues == {Atom(<<111, 107>>), FixInteger(255), FixInteger(256), FixInteger(-1),
                APid, Nil}

\* the bytes that follow the written ones in a longer reader
Suffixes == {<<NIL_EXT>>, <<0>>, <<VERSION, NIL_EXT>>, <<SMALL_INTEGER_EXT, 1>>,
             <<255, 255, 255>>}

\* ------------------------------------------------------------ operations
NoResult == [kind |-> "None", val |-> NoError]
Outcome(res) == [kind |-> res.kind, val |-> res.val]

Init ==
    /\ overflow_checks \in BOOLEAN
    /\ term \in Terms
    /\ pc = "ready"
    /\ writer = NewWriter(-1)
    /\ enc_result = NoResult
    /\ source = "none"
    /\ reader = <<>>
    /\ rstate = NewReader
    /\ dec_result = NoResult
    /\ writer2 = NewWriter(-1)
    /\ enc_result2 = NoResult

\* Encoder::new(sink).encode(&term), over a sink that never fails (cap -1)
\* or that accepts cap bytes
Encode(cap) ==
    /\ pc = "ready"
    /\ LET res == encode(NewWriter(cap), term)
       IN  /\ writer' = res.w
           /\ enc_result' = Outcome(res)
    /\ pc' = "encoded"
    /\ UNCHANGED <<overflow_checks, term, source, reader, rstate, dec_result,
                   writer2, enc_result2>>

NewDecoder(src, bytes) ==
    /\ pc = "encoded"
    /\ enc_result.kind = "Ok"
    /\ source' = src
    /\ reader' = bytes
    /\ rstate' = NewReader
    /\ pc' = "initial"
    /\ UNCHANGED <<overflow_checks, term, writer, enc_result, dec_result,
                   writer2, enc_result2>>

\* Decoder::new over the bytes the Encoder wrote
DecoderOnEncoded == NewDecoder("encoded", writer.out)

\* Decoder::new over the compressed envelope of the bytes the Encoder wrote
CompressedEnvelope(B, size) ==
    <<VERSION, COMPRESSED_TERM>> \o u32_be(size) \o zlib_stored(Tail(B))
DecoderOnCompressed ==
    \E size \in SizeFields : NewDecoder("compressed", CompressedEnvelope(writer.out, size))

\* Decoder::new over a compressed envelope whose inflated stream starts with
\* another byte than the written term's tag
DecoderOnCompressedAltered ==
    \E b \in MutBytes :
        /\ Len(writer.out) >= 2
        /\ writer.out[2] # b
        /\ NewDecoder("compressed_altered",
                      CompressedEnvelope([writer.out EXCEPT ![2] = b], <<0, 0>>))

\* Decoder::new over bytes that differ from the written ones at one position
DecoderOnAltered ==
    \E i \in 1..MaxMutPos, b \in MutBytes :
        /\ i <= Len(writer.out)
        /\ writer.out[i] # b
        /\ NewDecoder("altered", [writer.out EXCEPT ![i] = b])

\* Decoder::new over a LIST stream made by hand: the header, the elements of
\* the List term as the Encoder writes each of them, and one of the tails
ListStream(es, tail_bytes) ==
    <<VERSION, LIST_EXT>> \o u32_be(as_u32(Len(es)))
        \o encode_elements(NewWriter(-1), es).w.out \o tail_bytes
DecoderOnListStream ==
    \E tb \in ListTails :
        /\ term.type = "List"
        /\ encode_elements(NewWriter(-1), term.elements).kind = "Ok"
        /\ NewDecoder("list", ListStream(term.elements, tb.bytes))

\* The wire layout of a Pid, Port, Reference, ExternalFun or InternalFun as
\* the decoder reads it: raw bytes, and nested terms with the type their
\* field has to have ("Ranged": a FixInteger in 0..=255).
RawItem(bytes) == [expected |-> "Raw", field |-> Nil, raw |-> bytes]
FieldItem(t, expected) == [expected |-> expected, field |-> t, raw |-> <<>>]
RECURSIVE ConcatU32s(_)
ConcatU32s(ns) == IF ns = <<>> THEN <<>> ELSE u32_be(ns[1]) \o ConcatU32s(Tail(ns))
Layouts(t) ==
    CASE t.type = "Pid" ->
           {[tag |-> PID_EXT,
             items |-> <<FieldItem(t.node, "Atom"),
                         RawItem(u32_be(t.id) \o u32_be(t.serial) \o <<t.creation>>)>>]}
      [] t.type = "Port" ->
           {[tag |-> PORT_EXT,
             items |-> <<FieldItem(t.node, "Atom"),
                         RawItem(u32_be(t.port_id) \o <<t.creation>>)>>]}
      [] t.type = "Reference" ->
           {[tag |-> NEW_REFERENCE_EXT,
             items |-> <<RawItem(u16_be(Len(t.ref_id))), FieldItem(t.node, "Atom"),
                         RawItem(<<t.creation>> \o ConcatU32s(t.ref_id))>>]}
           \cup (IF Len(t.ref_id) # 1 THEN {}
                 ELSE {[tag |-> REFERENCE_EXT,
                        items |-> <<FieldItem(t.node, "Atom"),
                                    RawItem(u32_be(t.ref_id[1]) \o <<t.creation>>)>>]})
      [] t.type = "ExternalFun" ->
           {[tag |-> EXPORT_EXT,
             items |-> <<FieldItem(t.module, "Atom"), FieldItem(t.function, "Atom"),
                         FieldItem(FixInteger(t.arity), "Ranged")>>]}
      [] t.type = "InternalFun" /\ t.shape = "Old" ->
           {[tag |-> FUN_EXT,
             items |-> <<RawItem(u32_be(as_u32(Len(t.free_vars)))),
                         FieldItem(t.pid, "Pid"), FieldItem(t.module, "Atom"),
                         FieldItem(FixInteger(t.index), "FixInteger"),
                         FieldItem(FixInteger(t.uniq), "FixInteger"),
                         RawItem(encode_elements(NewWriter(-1), t.free_vars).w.out)>>]}
      [] t.type = "InternalFun" /\ t.shape = "New" ->
           {[tag |-> NEW_FUN_EXT,
             items |-> <<RawItem(<<0, 0, 0, 0, t.arity>> \o t.uniq \o u32_be(t.index)
                                 \o u32_be(as_u32(Len(t.free_vars)))),
                         FieldItem(t.module, "Atom"),
                         FieldItem(FixInteger(t.old_index), "FixInteger"),
                         FieldItem(FixInteger(t.old_uniq), "FixInteger"),
                         FieldItem(t.pid, "Pid"),
                         RawItem(encode_elements(NewWriter(-1), t.free_vars).w.out)>>]}
      [] OTHER -> {}
\* the items with the nested field at position j, if it is one, holding x
SetField(items, j, x) ==
    IF items[j].expected = "Raw" THEN items
    ELSE [items EXCEPT ![j] = FieldItem(x, @.expected)]
RECURSIVE ItemBytes(_)
ItemBytes(items) ==
    IF items = <<>> THEN <<>>
    ELSE (IF items[1].expected = "Raw" THEN items[1].raw
          ELSE encode_term(NewWriter(-1), items[1].field).w.out) \o ItemBytes(Tail(items))
FieldStream(tag, items) == <<VERSION, tag>> \o ItemBytes(items)

\* Decoder::new over the wire layout of the term with up to two of its nested
\* fields holding other Terms
DecoderOnFields ==
    \E l \in Layouts(term) :
        \E j, k \in 1..Len(l.items), x, y \in FieldValues :
            /\ j <= k
            /\ term.type = "InternalFun" =>
                  (term.free_vars = <<>> \/ term.free_vars = <<FixInteger(1)>>)
            /\ NewDecoder("fields",
                          FieldStream(l.tag, SetField(SetField(l.items, j, x), k, y)))

\* Decoder::new over the bytes the Encoder wrote followed by other bytes
DecoderOnExtended ==
    \E s \in Suffixes : NewDecoder("extended", writer.out \o s)

\* Decoder::new over a strict prefix of the bytes the Encoder wrote
DecoderOnPrefix ==
    \E k \in 0..(Len(writer.out) - 1) : NewDecoder("prefix", SubSeq(writer.out, 1, k))

\* Decoder::decode, the version byte
DecodeVersion ==
    /\ pc = "initial"
    /\ LET res == decode_version(reader, rstate)
       IN  /\ rstate' = res.st
           /\ IF res.kind = "Ok"
              THEN pc' = "body" /\ UNCHANGED dec_result
              ELSE pc' = "done" /\ dec_result' = Outcome(res)
    /\ UNCHANGED <<overflow_checks, term, writer, enc_result, source, reader,
                   writer2, enc_result2>>

\* Decoder::decode, the envelope tag and the term
DecodeBody ==
    /\ pc = "body"
    /\ LET res == decode_body(reader, rstate)
       IN  /\ rstate' = res.st
           /\ dec_result' = Outcome(res)
    /\ pc' = "done"
    /\ UNCHANGED <<overflow_checks, term, writer, enc_result, source, reader,
                   writer2, enc_result2>>

\* Encoder::new(sink).encode(&decoded) on the Term the Decoder returned
ReEncode ==
    /\ pc = "done"
    /\ source = "encoded"
    /\ dec_result.kind = "Ok"
    /\ LET res == encode(NewWriter(-1), dec_result.val)
       IN  /\ writer2' = res.w
           /\ enc_result2' = Outcome(res)
    /\ pc' = "reencoded"
    /\ UNCHANGED <<overflow_checks, term, writer, enc_result, source, reader, rstate,
                   dec_result>>

Next ==
    \/ \E cap \in {-1} \cup 0..MaxCap : Encode(cap)
    \/ DecoderOnEncoded
    \/ DecoderOnCompressed
    \/ DecoderOnCompressedAltered
    \/ DecoderOnAltered
    \/ DecoderOnListStream
    \/ DecoderOnFields
    \/ DecoderOnExtended
    \/ DecoderOnPrefix
    \/ DecodeVersion
    \/ DecodeBody
    \/ ReEncode

Spec == Init /\ [][Next]_vars

\* ------------------------------------------------------------ properties
\* the sub-terms a Term holds directly
RECURSIVE Flatten(_)
Flatten(entries) ==
    IF entries = <<>> THEN <<>>
    ELSE <<entries[1][1], entries[1][2]>> \o Flatten(Tail(entries))
Children(t) ==
    CASE t.type \in {"List", "Tuple"} -> t.elements
      [] t.type = "ImproperList" -> Append(t.elements, t.last)
      [] t.type = "Map" -> Flatten(t.entries)
      [] t.type = "InternalFun" -> <<t.pid, t.module>> \o t.free_vars
      [] t.type \in {"Pid", "Port", "Reference"} -> <<t.node>>
      [] t.type = "ExternalFun" -> <<t.module, t.function>>
      [] OTHER -> <<>>

\* P holds of t and of every Term inside it
RECURSIVE Everywhere(_, _)
Everywhere(P(_), t) ==
    P(t) /\ \A i \in 1..Len(Children(t)) : Everywhere(P, Children(t)[i])

\* the data-model invariants of one node of a Term
TailBitsInRange(t) ==
    t.type = "BitBinary" => t.tail_bits_size >= 1 /\ t.tail_bits_size <= 8
LimbsInRange(t) ==
    t.type = "Reference" => Len(t.ref_id) >= 1 /\ Len(t.ref_id) <= 65535
ImproperIsImproper(t) ==
    t.type = "ImproperList" => Len(t.elements) >= 1 /\ ~is_nil(t.last)
NodeInvariants(t) == TailBitsInRange(t) /\ LimbsInRange(t) /\ ImproperIsImproper(t)
DataModelInvariants(t) == Everywhere(NodeInvariants, t)

\* a valid Term: the data-model invariants, a finite Float, an atom name that
\* is text of at most 65535 bytes, and a BitBinary whose last byte holds its
\* tail_bits_size significant bits in the low positions and nothing above them
NodeValid(t) ==
    /\ NodeInvariants(t)
    /\ t.type = "Float" => is_finite(t.fvalue)
    /\ t.type = "Atom" => Utf8Valid(t.name) /\ Len(t.name) <= 65535
    /\ (t.type = "BitBinary" /\ t.bytes # <<>> /\ TailBitsInRange(t))
          => t.bytes[Len(t.bytes)] < Pow2(t.tail_bits_size)
ValidTerm(t) == Everywhere(NodeValid, t)

NoNilTailNode(t) == t.type = "ImproperList" => ~is_nil(t.last)
NoNilTail(t) == Everywhere(NoNilTailNode, t)
NoEmptyImproperNode(t) == t.type = "ImproperList" => t.elements # <<>>
HasEmptyImproper(t) == ~Everywhere(NoEmptyImproperNode, t)

IsOk(res, v) == res.kind = "Ok" /\ res.val = v
IsErr(res, err) == res.kind = "Err" /\ res.val.e = err.e /\ res.val = err

\* the 26 tags of the tag table
TagTable == {NEW_FLOAT_EXT, BIT_BINARY_EXT, ATOM_CACHE_REF} \cup (SMALL_INTEGER_EXT..SMALL_ATOM_UTF8_EXT)

\* C1: decoding the bytes encode wrote for a valid Term returns a Term equal
\* to it.
C1_RoundTrip ==
    (pc = "done" /\ source = "encoded" /\ ValidTerm(term))
        => IsOk(dec_result, term)

\* C2 as claimed: for every Term encode accepts, valid or not, encoding the
\* decoded Term reproduces the bytes of the first encoding.
C2_ByteIdempotenceOfEveryTerm ==
    pc = "reencoded" => (enc_result2.kind = "Ok" /\ writer2.out = writer.out)

\* C2 as amended: for every Term encode accepts in which no ImproperList has
\* an empty List as its tail, encoding the decoded Term reproduces the bytes
\* of the first encoding.
C2_ByteIdempotence ==
    (pc = "reencoded" /\ NoNilTail(term))
        => (enc_result2.kind = "Ok" /\ writer2.out = writer.out)
C2_Witness ==
    /\ pc = "reencoded"
    /\ term.type = "ImproperList" /\ term.elements = <<>> /\ ~is_nil(term.last)
    /\ writer2.out = writer.out

\* C3: Decoder::decode always returns, either a Term or a DecodeError, and
\* never ends in another way.
C3_DecodeTotal ==
    pc = "done" => dec_result.kind \in {"Ok", "Err"}

\* C4: a first byte b other than 131 makes decode return UnsupportedVersion
\* carrying b with that one byte consumed and no tag read or dispatched; a
\* first byte of 131 never gives UnsupportedVersion.
C4_VersionFirst ==
    /\ (pc \in {"body", "done"} /\ reader # <<>> /\ reader[1] # VERSION)
          => /\ pc = "done"
             /\ IsErr(dec_result, UnsupportedVersion(reader[1]))
             /\ rstate.pos = 1
             /\ rstate.tags = <<>>
    /\ (pc = "done" /\ reader # <<>> /\ reader[1] = VERSION)
          => ~(dec_result.kind = "Err" /\ dec_result.val.e = "UnsupportedVersion")
C4_Witness ==
    /\ pc = "done" /\ Len(reader) >= 2 /\ reader[1] # VERSION
    /\ dec_result.kind = "Err" /\ dec_result.val.e = "UnsupportedVersion"

\* C5: once encode has written a byte, the first byte of the sink is 131 and
\* the version byte was written exactly once, whether encode returns Ok or
\* fails part-way, nested terms and the NEW_FUN body included.
C5_VersionPrefix ==
    /\ (pc # "ready" /\ writer.out # <<>>)
          => (writer.out[1] = VERSION /\ writer.versions = 1)
    /\ (pc = "reencoded" /\ writer2.out # <<>>)
          => (writer2.out[1] = VERSION /\ writer2.versions = 1)
C5_Witness ==
    /\ pc = "encoded" /\ enc_result.kind = "Err"
    /\ term.type = "InternalFun" /\ term.shape = "New"
    /\ Len(writer.out) = 3

\* C6: the compressed envelope of the bytes encode wrote (131, 80, any size
\* field, the body compressed) decodes to what those bytes decode to.
C6_CompressedEquivalence ==
    (pc = "done" /\ source = "compressed")
        => dec_result = Outcome(decode(writer.out))
C6_Witness ==
    /\ pc = "done" /\ source = "compressed"
    /\ term.type = "Tuple" /\ Len(term.elements) = 2
    /\ IsOk(dec_result, term)

\* C7: every Term a successful decode returns satisfies the data-model
\* invariants at every depth.
C7_DecodedInvariants ==
    (pc = "done" /\ dec_result.kind = "Ok") => DataModelInvariants(dec_result.val)

\* C8: encoding a Term that holds an ImproperList without leading elements
\* returns an EncodeError.
C8_EmptyImproperListRefused ==
    (pc = "encoded" /\ HasEmptyImproper(term)) => enc_result.kind = "Err"

\* C9: a byte outside the tag table read where a term tag is expected makes
\* decode return UnknownTag carrying that byte: at the top level for every
\* byte but the envelope tags 80 and 68, and at every nested position, where
\* 80 and 68 are unknown tags too.
C9_UnknownTag ==
    pc = "done" =>
        /\ \A i \in 1..Len(rstate.tags) :
              rstate.tags[i] \notin TagTable
                  => (i = Len(rstate.tags) /\ IsErr(dec_result, UnknownTag(rstate.tags[i])))
        /\ (Len(reader) >= 2 /\ reader[1] = VERSION
              /\ reader[2] \notin TagTable \cup {COMPRESSED_TERM, DISTRIBUTION_HEADER})
              => IsErr(dec_result, UnknownTag(reader[2]))
C9_Witness ==
    /\ pc = "done" /\ Len(rstate.tags) >= 2
    /\ rstate.tags[Len(rstate.tags)] = COMPRESSED_TERM
    /\ IsErr(dec_result, UnknownTag(COMPRESSED_TERM))

\* the four big-endian bytes of v in two's complement
TwosComplement(v) ==
    LET u == IF v >= 0 THEN v ELSE v + 2147483647 + 1
        top == IF v >= 0 THEN 0 ELSE 128
    IN  <<top + (u \div 16777216), (u \div 65536) % 256, (u \div 256) % 256, u % 256>>

\* C10: a FixInteger v is written as 131, 97, v exactly when 0 <= v <= 255
\* and as 131, 98 and v in four big-endian two's-complement bytes otherwise;
\* decoding either form returns FixInteger(v).
C10_FixIntegerTag ==
    term.type = "FixInteger" =>
        LET v == term.value
            small == <<VERSION, SMALL_INTEGER_EXT, v>>
            large == <<VERSION, INTEGER_EXT>> \o TwosComplement(v)
        IN  /\ (pc # "ready" /\ enc_result.kind = "Ok")
                  => writer.out = (IF 0 <= v /\ v <= 255 THEN small ELSE large)
            /\ (pc # "ready" /\ enc_result.kind = "Ok" /\ v = 0) => writer.out = <<131, 97, 0>>
            /\ (pc # "ready" /\ enc_result.kind = "Ok" /\ v = 1000)
                  => writer.out = <<131, 98, 0, 0, 3, 232>>
            /\ (pc = "done" /\ source = "encoded")
                  => /\ IsOk(dec_result, term)
                     /\ IsOk(decode(large), term)
                     /\ (0 <= v /\ v <= 255) => IsOk(decode(small), term)
C10_Witness ==
    /\ pc = "done" /\ source = "encoded"
    /\ term = FixInteger(-1)
    /\ writer.out = <<131, 98, 255, 255, 255, 255>>
    /\ IsOk(dec_result, term)

\* the bytes the Encoder writes for each element on its own, concatenated
RECURSIVE EachEncoded(_)
EachEncoded(es) ==
    IF es = <<>> THEN <<>>
    ELSE encode_term(NewWriter(-1), es[1]).w.out \o EachEncoded(Tail(es))
IsByte(e) == e.type = "FixInteger" /\ 0 <= e.value /\ e.value <= 255

\* C11: a List is written in the STRING form (107, u16 length, one byte per
\* element, no NIL) exactly when it is non-empty, has at most 65535 elements
\* and every element is a FixInteger in 0..255; every other non-empty List
\* is written as the LIST header, each element as a term, then NIL; the
\* empty List is written as the byte 106.
C11_ListEncodingChoice ==
    (pc # "ready" /\ enc_result.kind = "Ok" /\ term.type = "List") =>
        LET es == term.elements
        IN  writer.out =
              <<VERSION>> \o
              (IF es = <<>> THEN <<NIL_EXT>>
               ELSE IF Len(es) <= 65535 /\ \A i \in 1..Len(es) : IsByte(es[i])
               THEN <<STRING_EXT>> \o u16_be(Len(es)) \o [i \in 1..Len(es) |-> es[i].value]
               ELSE <<LIST_EXT>> \o u32_be(as_u32(Len(es))) \o EachEncoded(es) \o <<NIL_EXT>>)

\* the Terms that decoding each element's own bytes returns, and whether
\* each of them decodes to a Term
DecodedAlone(es) ==
    [i \in 1..Len(es) |->
        decode_term(encode_term(NewWriter(-1), es[i]).w.out, NewReader).val]
EachDecodes(es) ==
    \A i \in 1..Len(es) :
        decode_term(encode_term(NewWriter(-1), es[i]).w.out, NewReader).kind = "Ok"

\* C12: on a LIST stream whose elements each decode to a Term, the decoder
\* returns the count elements in stream order and consumes one more term as
\* the tail; the result is a proper List
\* exactly when that tail is an empty List (written as NIL, as a STRING of
\* length zero or as a LIST of zero elements and a NIL), and otherwise an
\* ImproperList of the same elements and that tail.
C12_ListDecoding ==
    (pc = "done" /\ source = "list" /\ EachDecodes(term.elements)) =>
        \A tb \in ListTails :
            reader = ListStream(term.elements, tb.bytes) =>
                /\ IsOk(dec_result,
                        IF tb.tail = Nil THEN List(DecodedAlone(term.elements))
                        ELSE ImproperList(DecodedAlone(term.elements), tb.tail))
                /\ rstate.pos = Len(reader)
C12_Witness ==
    /\ pc = "done" /\ source = "list"
    /\ term = List(<<FixInteger(-1), Atom(<<111, 107>>)>>)
    /\ SubSeq(reader, Len(reader) - 2, Len(reader)) = <<STRING_EXT, 0, 0>>
    /\ IsOk(dec_result, term)

\* what the type check of one nested field gives: no error, or the error
FieldError(item) ==
    LET t == item.field
        wanted == IF item.expected = "Ranged" THEN "FixInteger" ELSE item.expected
    IN  IF item.expected = "Raw" THEN NoError
        ELSE IF t.type # wanted THEN UnexpectedType(t, wanted)
        ELSE IF item.expected = "Ranged" /\ ~(0 <= t.value /\ t.value <= 255)
        THEN OutOfRange(t.value, 0, 255)
        ELSE NoError
\* the error of the first failing field in stream order, or no error
RECURSIVE FirstFieldError(_)
FirstFieldError(items) ==
    IF items = <<>> THEN NoError
    ELSE IF FieldError(items[1]) # NoError THEN FieldError(items[1])
    ELSE FirstFieldError(Tail(items))

\* C13: in a PID, PORT, REFERENCE, NEW_REFERENCE, EXPORT, FUN or NEW_FUN
\* stream, the first nested field in stream order that holds a Term of
\* another type than its field's makes decode return UnexpectedType with that
\* Term and the expected type name; an EXPORT arity n is accepted exactly
\* when 0 <= n <= 255 and gives OutOfRange with n otherwise; with no failing
\* field decode returns a Term.
C13_FieldTypeChecks ==
    (pc = "done" /\ source = "fields") =>
        \A l \in Layouts(term) :
            \A j, k \in 1..Len(l.items), x, y \in FieldValues :
                LET items == SetField(SetField(l.items, j, x), k, y)
                    err == FirstFieldError(items)
                IN  (j <= k /\ reader = FieldStream(l.tag, items)) =>
                        IF err = NoError THEN dec_result.kind = "Ok"
                        ELSE IsErr(dec_result, err)
C13_Witness ==
    /\ pc = "done" /\ source = "fields"
    /\ term.type = "InternalFun" /\ term.shape = "New"
    /\ \E l \in Layouts(term) :
          reader = FieldStream(l.tag, SetField(SetField(l.items, 2, FixInteger(256)), 5, Nil))
    /\ IsErr(dec_result, UnexpectedType(FixInteger(256), "Atom"))

\* C14: for a BitBinary with tail_bits_size n in 1..8 whose last byte b is
\* below 2^n, encode writes the header, the bytes but the last as they are
\* and the last one as (b * 2^(8-n)) mod 256, never overflowing a shift, and
\* decode gives b back; without payload only the header 77, size 0, n is
\* written and nothing is shifted.
C14_BitBinaryShifts ==
    (/\ term.type = "BitBinary"
     /\ term.tail_bits_size \in 1..8
     /\ (term.bytes = <<>> \/ term.bytes[Len(term.bytes)] < 2^term.tail_bits_size)) =>
        LET n == term.tail_bits_size
            len == Len(term.bytes)
            wire == IF len = 0 THEN <<>>
                    ELSE SubSeq(term.bytes, 1, len - 1)
                         \o <<(term.bytes[len] * 2^(8 - n)) % 256>>
        IN  /\ pc # "ready" => enc_result.kind \in {"Ok", "Err"}
            /\ (pc # "ready" /\ enc_result.kind = "Ok")
                  => writer.out = <<VERSION, BIT_BINARY_EXT, 0, 0, 0, len, n>> \o wire
            /\ (pc = "done" /\ source = "encoded") => IsOk(dec_result, term)
C14_Witness ==
    /\ pc = "done" /\ source = "encoded"
    /\ term = BitBinary(<<9, 64>>, 7)
    /\ writer.out = <<131, 77, 0, 0, 0, 2, 7, 9, 128>>
    /\ IsOk(dec_result, term)

\* C15: decoding a reader that holds the bytes encode wrote for a Term
\* followed by other bytes returns what decoding the written bytes alone
\* returns, dispatches on the same tags in the same order, and, when it
\* returns a Term, leaves exactly the other bytes unread.
C15_OneTermConsumed ==
    (pc = "done" /\ source = "extended") =>
        LET alone == decode(writer.out)
        IN  /\ SubSeq(reader, 1, Len(writer.out)) = writer.out
            /\ dec_result = Outcome(alone)
            /\ rstate.tags = alone.st.tags
            /\ dec_result.kind = "Ok" =>
                  /\ alone.st.pos = Len(writer.out)
                  /\ rstate.pos = Len(writer.out)
                  /\ SubSeq(reader, rstate.pos + 1, Len(reader)) \in Suffixes
C15_Witness ==
    /\ pc = "done" /\ source = "extended"
    /\ term = List(<<FixInteger(1), FixInteger(1)>>)
    /\ reader = <<131, 107, 0, 2, 1, 1, 106>>
    /\ IsOk(dec_result, term)
    /\ rstate.pos = 6

IsFiniteNode(t) == t.type = "Float" => is_finite(t.fvalue)
AllFloatsFinite(t) == Everywhere(IsFiniteNode, t)

=============================================================================
